---------------------------- MODULE Spec2Model ----------------------------
(***************************************************************************)
(* Model of the deploy-ntt command line wrapper.                           *)
(*                                                                         *)
(* The repository holds two revisions of the script:                       *)
(*   src/unnamed/part_000   (checkPrerequisites, findNttKeypairFile,       *)
(*                           prepareSolanaDeployment, deployNTT)           *)
(*   src/src/deploy-ntt.ts  (parseArgs and deployNTT only)                 *)
(* The variable `script` says which of the two is being run.  parseArgs,   *)
(* printUsage and the main try/catch are the same text in both.            *)
(*                                                                         *)
(* A run is: the argument scan of parseArgs (one action per loop           *)
(* iteration), the validation that follows the loop, and then the body of  *)
(* deployNTT, one action per external command.  The outcome of every       *)
(* external command, the existence of the payer file and the content of    *)
(* the working directory are chosen by the environment.                    *)
(***************************************************************************)
EXTENDS Integers, Sequences, FiniteSets, TLC

\* ------------------------------------------------------------------ bounds

\* Largest number of tokens put around the required flag/value pairs.
MaxExtra == 2

\* Largest number of entries the working directory holds when it is listed.
MaxDirEntries == 2

\* --------------------------------------------------------------- constants

\* The two revisions of the script.
Scripts == {"part_000", "deploy-ntt.ts"}

\* JavaScript's undefined: args[k] past the end, an unset config field.
undefined == "<undefined>"

DEFAULT_CONFIG ==
    [network      |-> "Testnet",
     mode         |-> "burning",
     rpcEndpoints |-> [Base   |-> "https://sepolia.base.org",
                       Solana |-> "https://api.devnet.solana.com"]]

\* The flags whose case in the switch reads args[++i] into a required field.
FieldOfFlag ==
    [f \in {"--project-name", "--base-token", "--solana-token", "--solana-payer"} |->
        CASE f = "--project-name" -> "projectName"
          [] f = "--base-token"   -> "baseToken"
          [] f = "--solana-token" -> "solanaToken"
          [] f = "--solana-payer" -> "solanaPayer"]

RequiredFlags == DOMAIN FieldOfFlag

HelpFlags == {"-h", "--help"}

Modes == {"burning", "locking"}

\* const requiredParams, in the order the validation loop visits them, each
\* name spelt out in characters because the message is built from them.
requiredParams ==
    << <<"p","r","o","j","e","c","t","N","a","m","e">>,
       <<"b","a","s","e","T","o","k","e","n">>,
       <<"s","o","l","a","n","a","T","o","k","e","n">>,
       <<"s","o","l","a","n","a","P","a","y","e","r">> >>

\* The config field a requiredParams entry names.
FieldOfParam ==
    [k \in 1..4 |-> CASE k = 1 -> "projectName"
                      [] k = 2 -> "baseToken"
                      [] k = 3 -> "solanaToken"
                      [] k = 4 -> "solanaPayer"]

\* String.prototype.toLowerCase on one character (also the folding of grep -i).
toLowerCase(c) ==
    CASE c = "N" -> "n"
      [] c = "T" -> "t"
      [] c = "P" -> "p"
      [] c = "J" -> "j"
      [] c = "S" -> "s"
      [] c = "O" -> "o"
      [] OTHER   -> c

UpperCase == {"N", "T", "P", "J", "S", "O"}

\* param.replace(/[A-Z]/g, c => `-${c.toLowerCase()}`)
RECURSIVE DashCase(_)
DashCase(s) ==
    IF s = <<>> THEN <<>>
    ELSE (IF Head(s) \in UpperCase THEN <<"-", toLowerCase(Head(s))>> ELSE <<Head(s)>>)
         \o DashCase(Tail(s))

\* ---------------------------------------------------------------- messages
\* Every line printed is a flat tuple of strings.

UsageText == <<"Usage: deploy-ntt [options]">>

ModeError == <<"Error: mode must be either 'burning' or 'locking'">>

UnknownOption(tok) == <<"Unknown option: ", tok>>

MissingParameter(param) == <<"Error: Missing required parameter --">> \o DashCase(param)

PayerNotFound(path) == <<"Error: Solana payer file not found: ", path>>

MissingTools ==
    <<"Missing required tools. Please install:",
      "- Solana CLI tools (solana, spl-token)",
      "- Anchor (https://www.anchor-lang.com/docs/installation)",
      "- Foundry (forge) (https://book.getfoundry.sh/getting-started/installation)",
      "- NTT CLI (https://wormhole.com/docs/build/contract-integrations/native-token-transfers/deployment-process/install-cli)">>

\* ------------------------------------------------------------------ inputs

\* The four required flag/value pairs of a well-formed command line.
CanonicalPairs ==
    << <<"--project-name", "demo">>,
       <<"--base-token", "0xAAA">>,
       <<"--solana-token", "TokenkegQfeZyiNwAJbNbGKPFXCWuBvf9Ss623VQ5DA">>,
       <<"--solana-payer", "./payer.json">> >>

\* The pairs of CanonicalPairs whose index is in `keep`, in order.
RECURSIVE PairsFrom(_, _)
PairsFrom(k, keep) ==
    IF k > Len(CanonicalPairs) THEN <<>>
    ELSE (IF k \in keep THEN CanonicalPairs[k] ELSE <<>>) \o PairsFrom(k + 1, keep)

\* Tokens placed before and after the pairs: flags, mode values, an unknown
\* flag, an empty argument.
ExtraTokens ==
    {"--project-name", "--mode", "--help", "-h", "--bogus",
     "burning", "locking", "fast", ""}

RECURSIVE SeqsUpTo(_, _)
SeqsUpTo(S, n) ==
    IF n = 0 THEN {<<>>}
    ELSE LET shorter == SeqsUpTo(S, n - 1)
         IN  shorter \cup {Append(s, x) : s \in {t \in shorter : Len(t) = n - 1}, x \in S}

ArgLists ==
    {pre \o PairsFrom(1, keep) \o suf :
        keep \in SUBSET (1..4),
        <<pre, suf>> \in {ps \in SeqsUpTo(ExtraTokens, MaxExtra) \X SeqsUpTo(ExtraTokens, MaxExtra) :
                            Len(ps[1]) + Len(ps[2]) <= MaxExtra}}

\* Names the working directory may hold when it is listed, in characters.
DirNames ==
    { <<"n","t","t","A","b",".","j","s","o","n">>,      \* nttAb.json
      <<"N","T","t","x",".","J","S","O","N">>,          \* NTtx.JSON
      <<"n","t","t","-","j","s","o","n">>,              \* ntt-json
      <<"n","t","t","j","s","o","n">>,                  \* nttjson
      <<"p","k","g",".","j","s","o","n">> }             \* pkg.json

Directories == {d \in SUBSET DirNames : Cardinality(d) <= MaxDirEntries}

\* What `ntt solana token-authority` may print, in characters.
TokenAuthorityOutputs ==
    { <<"P","d","a","1","(","2",")","\n">>,
      <<"P","d","\n">> }

\* ------------------------------------------------------------------- state

VARIABLES
    script,             \* which revision is run
    args,               \* process.argv.slice(2)
    i,                  \* parseArgs: the loop index (1-based)
    config,             \* parseArgs: the Partial<DeploymentConfig> being filled
    scanned,            \* the indices the loop body ran at, in order
    payerExists,        \* what existsSync(config.solanaPayer) answered: "unchecked", "true", "false"
    pc,                 \* the next statement to run
    exitCode,           \* the status of the process once it has ended
    stdout,             \* lines written by console.log
    stderr,             \* lines written by console.error
    issued,             \* execSync calls and file writes, in order, with their outcome
    written,            \* files written: name and data
    cwd,                \* process.cwd()
    dir,                \* entries of the working directory when it is listed
    programKeypairFile, \* prepareSolanaDeployment: the located keypair file
    tokenAuthorityPDA   \* prepareSolanaDeployment: the derived address

vars == <<script, args, i, config, scanned, payerExists, pc, exitCode, stdout, stderr,
          issued, written, cwd, dir, programKeypairFile, tokenAuthorityPDA>>

parseVars == <<i, config, scanned, payerExists>>
envVars == <<written, cwd, dir, programKeypairFile, tokenAuthorityPDA>>

\* exitCode while the process is still running.
NoExit == -1

Init ==
    /\ script \in Scripts
    /\ args \in ArgLists
    /\ i = 1
    /\ config = [projectName |-> undefined, baseToken |-> undefined,
                 solanaToken |-> undefined, solanaPayer |-> undefined,
                 mode |-> undefined]
    /\ scanned = <<>>
    /\ payerExists = "unchecked"
    /\ pc = "parseArgs"
    /\ exitCode = NoExit
    /\ stdout = <<>>
    /\ stderr = <<>>
    /\ issued = <<>>
    /\ written = <<>>
    /\ cwd = "."
    /\ dir = {}
    /\ programKeypairFile = <<>>
    /\ tokenAuthorityPDA = <<>>

\* ------------------------------------------------------- process and errors

\* process.exit(code)
Exit(code) ==
    /\ pc' = "exited"
    /\ exitCode' = code

\* Mutant of printUsage: the usage text printed, then process.exit(0).
printUsageExitZero ==
    /\ stdout' = Append(stdout, UsageText)
    /\ Exit(0)

\* printUsage(): console.log of the usage text, then process.exit(1).
printUsage ==
    /\ stdout' = Append(stdout, UsageText)
    /\ Exit(1)

\* An exception thrown inside the async deployNTT rejects its promise; main's
\* `.catch(console.error)` prints it and the process then ends on its own,
\* with status 0.  main's own catch block (process.exit(1)) is not entered.
Rejected(error) ==
    /\ stderr' = Append(stderr, error)
    /\ pc' = "exited"
    /\ exitCode' = 0

\* The function returns and the process ends with nothing left to run.
Completed ==
    /\ pc' = "exited"
    /\ exitCode' = 0

\* --------------------------------------------------------------- parseArgs

\* args[k] in JavaScript: undefined past the end.
ArgAt(k) == IF k \in 1..Len(args) THEN args[k] ELSE undefined

\* Mutant of NextIndex: the value read as args[i + 1], i not moved onto it.
NextIndexValueNotSkipped(k) == k + 1

\* Where the loop goes on after a value-flag at index k: `args[++i]` moves i
\* onto the value and the loop's own i++ moves past it.
NextIndex(k) == k + 2

\* The value a flag's case stores: always the one just read (an assignment,
\* so a later occurrence overwrites an earlier one).
StoredValue(old, new) == new

\* !config[param]: undefined and the empty string are falsy.
Falsy(v) == v = undefined \/ v = ""

\* Mutant of ValidMode: any value that is present is accepted.
ValidModeAnyValue(mode) == mode # undefined

\* mode === 'burning' || mode === 'locking'
ValidMode(mode) == mode \in Modes

\* Mutant of FirstMissing: the last missing parameter is the one reported.
LastMissing(missing) == CHOOSE k \in missing : \A m \in missing : k >= m

\* The first of the missing parameters in requiredParams order: the loop exits
\* the process at the first one it meets.
FirstMissing(missing) == CHOOSE k \in missing : \A m \in missing : k <= m

\* case '--project-name' | '--base-token' | '--solana-token' | '--solana-payer'
ScanValueFlag ==
    /\ pc = "parseArgs"
    /\ i <= Len(args)
    /\ args[i] \in RequiredFlags
    /\ config' = [config EXCEPT ![FieldOfFlag[args[i]]] = StoredValue(@, ArgAt(i + 1))]
    /\ i' = NextIndex(i)
    /\ scanned' = Append(scanned, i)
    /\ UNCHANGED <<script, args, payerExists, pc, exitCode, stdout, stderr, issued>>
    /\ UNCHANGED envVars

\* case '--mode'
ScanMode ==
    /\ pc = "parseArgs"
    /\ i <= Len(args)
    /\ args[i] = "--mode"
    /\ scanned' = Append(scanned, i)
    /\ LET mode == ArgAt(i + 1)
       IN  IF ~ValidMode(mode)
           THEN /\ stderr' = Append(stderr, ModeError)
                /\ Exit(1)
                /\ i' = i + 1
                /\ config' = config
           ELSE /\ config' = [config EXCEPT !.mode = StoredValue(@, mode)]
                /\ i' = NextIndex(i)
                /\ UNCHANGED <<stderr, pc, exitCode>>
    /\ UNCHANGED <<script, args, payerExists, stdout, issued>>
    /\ UNCHANGED envVars

\* case '-h' | '--help'
ScanHelp ==
    /\ pc = "parseArgs"
    /\ i <= Len(args)
    /\ args[i] \in HelpFlags
    /\ scanned' = Append(scanned, i)
    /\ printUsage
    /\ UNCHANGED <<script, args, i, config, payerExists, stderr, issued>>
    /\ UNCHANGED envVars

\* default
ScanUnknown ==
    /\ pc = "parseArgs"
    /\ i <= Len(args)
    /\ args[i] \notin RequiredFlags \cup {"--mode"} \cup HelpFlags
    /\ scanned' = Append(scanned, i)
    /\ stderr' = Append(stderr, UnknownOption(args[i]))
    /\ printUsage
    /\ UNCHANGED <<script, args, i, config, payerExists, issued>>
    /\ UNCHANGED envVars

\* The indices of requiredParams whose field is falsy.
MissingParams(cfg) == {k \in 1..4 : Falsy(cfg[FieldOfParam[k]])}

\* The first statement of deployNTT.
DeployEntry == IF script = "part_000" THEN "checkPrerequisites" ELSE "ntt new"

\* The rest of parseArgs once the loop has ended: the required parameters, then
\* existsSync on the payer path; on success main goes on to call deployNTT.
ValidateConfig ==
    /\ pc = "parseArgs"
    /\ i > Len(args)
    /\ LET missing == MissingParams(config)
       IN  IF missing # {}
           THEN /\ stderr' = Append(stderr, MissingParameter(requiredParams[FirstMissing(missing)]))
                /\ printUsage
                /\ payerExists' = payerExists
           ELSE \E exists \in BOOLEAN :
                    IF exists
                    THEN /\ payerExists' = "true"
                         /\ pc' = DeployEntry
                         /\ UNCHANGED <<stderr, stdout, exitCode>>
                    ELSE /\ payerExists' = "false"
                         /\ stderr' = Append(stderr, PayerNotFound(config.solanaPayer))
                         /\ Exit(1)
                         /\ stdout' = stdout
    /\ UNCHANGED <<script, args, i, config, scanned, issued>>
    /\ UNCHANGED envVars

\* ---------------------------------------------------------------- execSync

\* Mutant of execSync: the status of the command is ignored.
execSyncIgnoringStatus(command, ok, next) ==
    /\ issued' = Append(issued, [cmd |-> command, ok |-> ok])
    /\ pc' = next
    /\ UNCHANGED <<stderr, exitCode>>

\* execSync(command): the call is recorded with its outcome; a non-zero status
\* throws, which rejects deployNTT's promise; otherwise control goes on.
execSync(command, ok, next) ==
    /\ issued' = Append(issued, [cmd |-> command, ok |-> ok])
    /\ IF ok
       THEN /\ pc' = next
            /\ UNCHANGED <<stderr, exitCode>>
       ELSE Rejected(<<"Error: Command failed: ">> \o command)

\* ------------------------------------------------------ checkPrerequisites

requiredTools == <<"solana", "spl-token", "anchor", "forge", "ntt">>

\* The `which` probes run up to and including probe n; `failed` says whether
\* probe n returned non-zero.
Probes(n, failed) ==
    [k \in 1..n |-> [cmd |-> <<"which", requiredTools[k]>>, ok |-> ~(failed /\ k = n)]]

\* Mutant of AfterMissingTools: the message is printed and deployNTT goes on.
AfterMissingToolsGoesOn ==
    /\ pc' = "ntt new"
    /\ exitCode' = exitCode

\* The catch block's last statement: process.exit(1).
AfterMissingTools == Exit(1)

checkPrerequisites ==
    /\ pc = "checkPrerequisites"
    /\ \E failAt \in 0..Len(requiredTools) :
          IF failAt = 0
          THEN /\ issued' = issued \o Probes(Len(requiredTools), FALSE)
               /\ pc' = "ntt new"
               /\ UNCHANGED <<stderr, exitCode>>
          ELSE /\ issued' = issued \o Probes(failAt, TRUE)
               /\ stderr' = stderr \o [k \in 1..Len(MissingTools) |-> <<MissingTools[k]>>]
               /\ AfterMissingTools
    /\ UNCHANGED <<script, args, stdout>>
    /\ UNCHANGED parseVars
    /\ UNCHANGED envVars

\* --------------------------------------------------------------- deployNTT

\* `mode = DEFAULT_CONFIG.mode` in deployNTT's destructuring: the default is
\* taken when config.mode is undefined.
DeployMode(cfg) == IF cfg.mode = undefined THEN DEFAULT_CONFIG.mode ELSE cfg.mode

\* execSync(`ntt new ${projectName}`)
NttNew ==
    /\ pc = "ntt new"
    /\ stdout' = Append(stdout, <<"Creating new NTT project: ", config.projectName>>)
    /\ \E ok \in BOOLEAN : execSync(<<"ntt", "new", config.projectName>>, ok, "chdir")
    /\ UNCHANGED <<script, args>>
    /\ UNCHANGED parseVars
    /\ UNCHANGED envVars

\* process.chdir(projectName): throws when the directory cannot be entered.
ChDir ==
    /\ pc = "chdir"
    /\ \E ok \in BOOLEAN :
          IF ok
          THEN /\ cwd' = config.projectName
               /\ pc' = "ntt init"
               /\ UNCHANGED <<stderr, exitCode>>
          ELSE /\ cwd' = cwd
               /\ Rejected(<<"Error: ENOENT: no such file or directory, chdir ", config.projectName>>)
    /\ UNCHANGED <<script, args, stdout, issued, written, dir, programKeypairFile, tokenAuthorityPDA>>
    /\ UNCHANGED parseVars

\* execSync(`ntt init ${DEFAULT_CONFIG.network}`)
NttInit ==
    /\ pc = "ntt init"
    /\ stdout' = Append(stdout, <<"Initializing project for ", DEFAULT_CONFIG.network>>)
    /\ \E ok \in BOOLEAN : execSync(<<"ntt", "init", DEFAULT_CONFIG.network>>, ok, "overrides.json")
    /\ UNCHANGED <<script, args>>
    /\ UNCHANGED parseVars
    /\ UNCHANGED envVars

\* const overrides = { chains: { Base: { rpc }, Solana: { rpc } } }
overrides ==
    [chains |-> [Base   |-> [rpc |-> DEFAULT_CONFIG.rpcEndpoints.Base],
                 Solana |-> [rpc |-> DEFAULT_CONFIG.rpcEndpoints.Solana]]]

\* Mutant of GeneratesKeypair: the branch is taken whenever a mode was given.
GeneratesKeypairWhenModeGiven(cfg) == cfg.mode # undefined

\* if (mode === 'burning') in prepareSolanaDeployment, whose `mode` is
\* destructured from config without a default.
GeneratesKeypair(cfg) == cfg.mode = "burning"

\* What follows the write of overrides.json: prepareSolanaDeployment in
\* part_000 (its burning branch or nothing), then add-chain Solana.
AfterOverrides ==
    IF script = "part_000" /\ GeneratesKeypair(config)
    THEN "solana-keygen grind"
    ELSE "add-chain Solana"

\* writeFileSync('overrides.json', JSON.stringify(overrides, null, 2))
WriteOverrides ==
    /\ pc = "overrides.json"
    /\ \E ok \in BOOLEAN :
          /\ issued' = Append(issued, [cmd |-> <<"writeFileSync", "overrides.json">>, ok |-> ok])
          /\ IF ok
             THEN /\ written' = Append(written, [file |-> "overrides.json", data |-> overrides])
                  /\ pc' = AfterOverrides
                  /\ UNCHANGED <<stderr, exitCode>>
             ELSE /\ written' = written
                  /\ Rejected(<<"Error: EACCES: permission denied, open ", "overrides.json">>)
    /\ UNCHANGED <<script, args, stdout, cwd, dir, programKeypairFile, tokenAuthorityPDA>>
    /\ UNCHANGED parseVars

\* -------------------------------------------------- findNttKeypairFile

Lowered(s) == [k \in 1..Len(s) |-> toLowerCase(s[k])]

\* grep -i "^ntt.*.json$": this is the pattern the shell receives, since in
\* the JavaScript string literal '\.' is just '.'.  A name matches when it
\* starts with ntt, ends with json, and has at least one character (any
\* character) between the two, letter case ignored.
GrepMatches(name) ==
    /\ Len(name) >= 3 + 1 + 4
    /\ SubSeq(Lowered(name), 1, 3) = <<"n", "t", "t">>
    /\ SubSeq(Lowered(name), Len(name) - 3, Len(name)) = <<"j", "s", "o", "n">>

NoKeypairFile == <<"Error: No NTT keypair file found in current directory">>

MultipleKeypairFiles == <<"Error: Multiple NTT keypair files found. Please ensure only one exists.">>

ListCommand == <<"ls -1 | grep -i \"^ntt.*.json$\"">>

\* The pipeline's status is grep's: 1 when no line matches (the catch block
\* turns that into the not-found error); with matches, the lines are split
\* and more than one is the ambiguous error, rethrown as it is.
findNttKeypairFile ==
    /\ pc = "findNttKeypairFile"
    /\ LET files == {name \in dir : GrepMatches(name)}
       IN  /\ issued' = Append(issued, [cmd |-> ListCommand, ok |-> files # {}])
           /\ IF files = {}
              THEN /\ Rejected(NoKeypairFile)
                   /\ UNCHANGED <<programKeypairFile, stdout>>
              ELSE IF Cardinality(files) > 1
              THEN /\ Rejected(MultipleKeypairFiles)
                   /\ UNCHANGED <<programKeypairFile, stdout>>
              ELSE /\ programKeypairFile' = CHOOSE name \in files : TRUE
                   /\ stdout' = Append(stdout, <<"Program keypair file:">> \o programKeypairFile')
                   /\ pc' = "token-authority"
                   /\ UNCHANGED <<stderr, exitCode>>
    /\ UNCHANGED <<script, args, written, cwd, dir, tokenAuthorityPDA>>
    /\ UNCHANGED parseVars

\* --------------------------------------------- prepareSolanaDeployment

IsSpace(c) == c \in {" ", "\n", "\t"}

\* String.prototype.trim
RECURSIVE trim(_)
trim(s) ==
    IF s = <<>> THEN <<>>
    ELSE IF IsSpace(Head(s)) THEN trim(Tail(s))
    ELSE IF IsSpace(s[Len(s)]) THEN trim(SubSeq(s, 1, Len(s) - 1))
    ELSE s

\* .slice(0, -4): all but the last four characters, or nothing.
SliceOffFour(s) == IF Len(s) > 4 THEN SubSeq(s, 1, Len(s) - 4) ELSE <<>>

\* execSync('solana-keygen grind --starts-with ntt:1 --ignore-case'); what the
\* working directory holds afterwards is the tool's doing and the project's.
Grind ==
    /\ pc = "solana-keygen grind"
    /\ stdout' = Append(stdout, <<"Generating program keypair for burning mode...">>)
    /\ \E ok \in BOOLEAN :
          execSync(<<"solana-keygen", "grind", "--starts-with", "ntt:1", "--ignore-case">>,
                   ok, "findNttKeypairFile")
    /\ dir' \in Directories
    /\ UNCHANGED <<script, args, written, cwd, programKeypairFile, tokenAuthorityPDA>>
    /\ UNCHANGED parseVars

\* execSync(`ntt solana token-authority ${programKeypairFile}`).toString().trim().slice(0, -4)
TokenAuthority ==
    /\ pc = "token-authority"
    /\ \E ok \in BOOLEAN :
          /\ execSync(<<"ntt", "solana", "token-authority">> \o programKeypairFile, ok, "spl-token authorize")
          /\ IF ok
             THEN \E output \in TokenAuthorityOutputs :
                      tokenAuthorityPDA' = SliceOffFour(trim(output))
             ELSE tokenAuthorityPDA' = tokenAuthorityPDA
    /\ UNCHANGED <<script, args, stdout, written, cwd, dir, programKeypairFile>>
    /\ UNCHANGED parseVars

\* execSync(`spl-token authorize ${solanaToken} mint ${tokenAuthorityPDA}`)
Authorize ==
    /\ pc = "spl-token authorize"
    /\ stdout' = Append(stdout, <<"Setting mint authority...">>)
    /\ \E ok \in BOOLEAN :
          execSync(<<"spl-token", "authorize", config.solanaToken, "mint">> \o tokenAuthorityPDA,
                   ok, "add-chain Solana")
    /\ UNCHANGED <<script, args>>
    /\ UNCHANGED parseVars
    /\ UNCHANGED envVars

\* ------------------------------------------------------ deployNTT, the rest

\* execSync(`ntt add-chain Solana --token ... --mode ... --latest --payer ...`)
AddChainSolana ==
    /\ pc = "add-chain Solana"
    /\ stdout' = Append(stdout, <<"Adding Solana chain...">>)
    /\ \E ok \in BOOLEAN :
          execSync(<<"ntt", "add-chain", "Solana", "--token", config.solanaToken,
                     "--mode", DeployMode(config), "--latest", "--payer", config.solanaPayer>>,
                   ok, "add-chain Base")
    /\ UNCHANGED <<script, args>>
    /\ UNCHANGED parseVars
    /\ UNCHANGED envVars

\* execSync(`ntt add-chain Base --token ... --mode ... --latest --skip-verify`)
AddChainBase ==
    /\ pc = "add-chain Base"
    /\ stdout' = Append(stdout, <<"Adding Base chain...">>)
    /\ \E ok \in BOOLEAN :
          execSync(<<"ntt", "add-chain", "Base", "--token", config.baseToken,
                     "--mode", DeployMode(config), "--latest", "--skip-verify">>,
                   ok, "ntt push")
    /\ UNCHANGED <<script, args>>
    /\ UNCHANGED parseVars
    /\ UNCHANGED envVars

\* execSync(`ntt push --yes --payer ${solanaPayer}`)
Push ==
    /\ pc = "ntt push"
    /\ stdout' = Append(stdout, <<"Pushing configuration...">>)
    /\ \E ok \in BOOLEAN :
          execSync(<<"ntt", "push", "--yes", "--payer", config.solanaPayer>>, ok, "cat deployment.json")
    /\ UNCHANGED <<script, args>>
    /\ UNCHANGED parseVars
    /\ UNCHANGED envVars

DeploymentJson == <<"<contents of deployment.json>">>

\* execSync('cat deployment.json'), printed; deployNTT then returns.
Cat ==
    /\ pc = "cat deployment.json"
    /\ \E ok \in BOOLEAN :
          /\ issued' = Append(issued, [cmd |-> <<"cat", "deployment.json">>, ok |-> ok])
          /\ IF ok
             THEN /\ stdout' = stdout \o << <<"Deployment complete! Configuration saved in deployment.json">>,
                                            DeploymentJson >>
                  /\ stderr' = stderr
                  /\ Completed
             ELSE /\ stdout' = Append(stdout, <<"Deployment complete! Configuration saved in deployment.json">>)
                  /\ Rejected(<<"Error: Command failed: ", "cat", "deployment.json">>)
    /\ UNCHANGED <<script, args>>
    /\ UNCHANGED parseVars
    /\ UNCHANGED envVars

\* ------------------------------------------------------------ specification

Next ==
    \/ ScanValueFlag
    \/ ScanMode
    \/ ScanHelp
    \/ ScanUnknown
    \/ ValidateConfig
    \/ checkPrerequisites
    \/ NttNew
    \/ ChDir
    \/ NttInit
    \/ WriteOverrides
    \/ Grind
    \/ findNttKeypairFile
    \/ TokenAuthority
    \/ Authorize
    \/ AddChainSolana
    \/ AddChainBase
    \/ Push
    \/ Cat

Spec == Init /\ [][Next]_vars

\* ------------------------------------------------ vocabulary of the claims
\* What the claims say about a command line is stated on `args` directly,
\* and about a run on the log `issued`, independently of the actions above.

ValueFlags == RequiredFlags \cup {"--mode"}

\* The positions of args that stand where a flag is expected when every
\* value-flag takes the one token after it.
RECURSIVE FlagPositionsFrom(_, _)
FlagPositionsFrom(a, k) ==
    IF k > Len(a) THEN {}
    ELSE {k} \cup FlagPositionsFrom(a, IF a[k] \in ValueFlags THEN k + 2 ELSE k + 1)

FlagPositions == FlagPositionsFrom(args, 1)

Occurrences(flag) == {p \in FlagPositions : args[p] = flag}

Largest(S) == CHOOSE x \in S : \A y \in S : y <= x

\* The token after the last occurrence of `flag`, undefined when there is none.
LastValue(flag) ==
    IF Occurrences(flag) = {} THEN undefined ELSE ArgAt(Largest(Occurrences(flag)) + 1)

OnlyValueFlags == \A p \in FlagPositions : args[p] \in ValueFlags

\* A --mode in flag position whose value is neither burning nor locking.
BadModeAt(p) == p \in FlagPositions /\ args[p] = "--mode" /\ ArgAt(p + 1) \notin {"burning", "locking"}

\* The required flags in the order of the usage text, and their names in characters.
FlagOrder == <<"--project-name", "--base-token", "--solana-token", "--solana-payer">>

FlagChars ==
    << <<"p","r","o","j","e","c","t","-","n","a","m","e">>,
       <<"b","a","s","e","-","t","o","k","e","n">>,
       <<"s","o","l","a","n","a","-","t","o","k","e","n">>,
       <<"s","o","l","a","n","a","-","p","a","y","e","r">> >>

MissingMessage(k) == <<"Error: Missing required parameter --">> \o FlagChars[k]

Smallest(S) == CHOOSE x \in S : \A y \in S : x <= y

Lines(log) == {log[k] : k \in DOMAIN log}

\* Nothing of the orchestration has happened: no command, no write, no chdir.
NothingIssued == issued = <<>> /\ written = <<>> /\ cwd = "."

\* The run has not gone past parseArgs.
StoppedInParse == pc \in {"parseArgs", "exited"} /\ NothingIssued

\* The step of the deployment sequence a logged command belongs to.
StepOf(c) ==
    CASE c[1] = "which"         -> <<"which", c[2]>>
      [] c[1] = "writeFileSync" -> <<"write", c[2]>>
      [] c[1] = "solana-keygen" -> <<"solana-keygen", "grind">>
      [] c = ListCommand        -> <<"ls", "grep">>
      [] c[1] = "spl-token"     -> <<"spl-token", "authorize">>
      [] c[1] = "cat"           -> <<"cat", "deployment.json">>
      [] c[1] = "ntt" /\ c[2] = "add-chain"  -> <<"ntt add-chain", c[3]>>
      [] c[1] = "ntt" /\ c[2] = "solana"     -> <<"ntt solana", "token-authority">>
      [] OTHER                  -> <<"ntt", c[2]>>

\* The steps in the order of the deployment sequence.
StepOrder ==
    << <<"which", "solana">>, <<"which", "spl-token">>, <<"which", "anchor">>,
       <<"which", "forge">>, <<"which", "ntt">>,
       <<"ntt", "new">>, <<"ntt", "init">>, <<"write", "overrides.json">>,
       <<"solana-keygen", "grind">>, <<"ls", "grep">>, <<"ntt solana", "token-authority">>,
       <<"spl-token", "authorize">>,
       <<"ntt add-chain", "Solana">>, <<"ntt add-chain", "Base">>,
       <<"ntt", "push">>, <<"cat", "deployment.json">> >>

Rank(c) == CHOOSE r \in DOMAIN StepOrder : StepOrder[r] = StepOf(c)

Steps == [k \in DOMAIN issued |-> StepOf(issued[k].cmd)]

BurningSteps ==
    {<<"solana-keygen", "grind">>, <<"ls", "grep">>, <<"ntt solana", "token-authority">>,
     <<"spl-token", "authorize">>}

Probe(c) == c[1] = "which"

\* The log without the prerequisite probes.
RECURSIVE WithoutProbes(_)
WithoutProbes(log) ==
    IF log = <<>> THEN <<>>
    ELSE (IF Probe(Head(log).cmd) THEN <<>> ELSE <<Head(log)>>) \o WithoutProbes(Tail(log))

\* ------------------------------------------------------------------- C1

\* The run of the end-to-end scenario: part_000, no --mode on the command
\* line, the four required values in place, the payer file present, and the
\* run ended without any command, write or chdir failing.
DefaultModeRunSucceeded ==
    /\ script = "part_000"
    /\ Occurrences("--mode") = {}
    /\ payerExists = "true"
    /\ pc = "exited"
    /\ exitCode = 0
    /\ stderr = <<>>
    /\ \A k \in DOMAIN issued : issued[k].ok

ScenarioSequence ==
    <<  <<"ntt", "new", LastValue("--project-name")>>,
        <<"ntt", "init", "Testnet">>,
        <<"writeFileSync", "overrides.json">>,
        <<"solana-keygen", "grind", "--starts-with", "ntt:1", "--ignore-case">>,
        ListCommand,
        <<"ntt", "solana", "token-authority">> \o programKeypairFile,
        <<"spl-token", "authorize", LastValue("--solana-token"), "mint">> \o tokenAuthorityPDA,
        <<"ntt", "add-chain", "Solana", "--token", LastValue("--solana-token"),
          "--mode", "burning", "--latest", "--payer", LastValue("--solana-payer")>>,
        <<"ntt", "add-chain", "Base", "--token", LastValue("--base-token"),
          "--mode", "burning", "--latest", "--skip-verify">>,
        <<"ntt", "push", "--yes", "--payer", LastValue("--solana-payer")>>,
        <<"cat", "deployment.json">>  >>

\* C1: in a run with the four required flags, an existing payer file, no
\* --mode, and every external command succeeding, the commands issued after
\* the probes are exactly: ntt new, ntt init, write overrides.json,
\* solana-keygen grind, keypair locate, ntt solana token-authority,
\* spl-token authorize, add-chain Solana (burning), add-chain Base (burning),
\* ntt push, cat deployment.json.
C1_DefaultModeSequence ==
    DefaultModeRunSucceeded =>
        [k \in DOMAIN WithoutProbes(issued) |-> WithoutProbes(issued)[k].cmd] = ScenarioSequence

\* ------------------------------------------------------------------- C2

\* The commands C2 lists: those of the deployment sequence proper.
SequenceCommand(c) ==
    StepOf(c) \in {<<"ntt", "new">>, <<"ntt", "init">>, <<"solana-keygen", "grind">>,
                   <<"ntt solana", "token-authority">>, <<"spl-token", "authorize">>,
                   <<"ntt add-chain", "Solana">>, <<"ntt add-chain", "Base">>,
                   <<"ntt", "push">>, <<"cat", "deployment.json">>}

\* C2: whenever a command of the deployment sequence returns a non-zero
\* status, the process prints a diagnostic and ends with a non-zero status.
C2_FailedCommandExitsNonZero ==
    \A k \in DOMAIN issued :
        (SequenceCommand(issued[k].cmd) /\ ~issued[k].ok) =>
            /\ pc = "exited"
            /\ stderr # <<>>
            /\ exitCode # 0

\* ------------------------------------------------------------------- C3

\* C3: in a run whose --mode is locking, solana-keygen grind, the keypair
\* listing, the token-authority query and spl-token authorize are never
\* issued, whatever the other arguments and outcomes.
C3_LockingNeverGeneratesKeypair ==
    LastValue("--mode") = "locking" =>
        \A k \in DOMAIN issued : Steps[k] \notin BurningSteps

\* A locking run of part_000 that went through the whole sequence.
C3_Witness ==
    /\ script = "part_000"
    /\ LastValue("--mode") = "locking"
    /\ config.mode = "locking"
    /\ pc = "exited"
    /\ issued # <<>>
    /\ issued[Len(issued)] = [cmd |-> <<"cat", "deployment.json">>, ok |-> TRUE]

\* ------------------------------------------------------------------- C4

\* The steps every run of the script goes through, in order.
MandatorySteps ==
    {r \in DOMAIN StepOrder :
        /\ StepOrder[r] \notin BurningSteps
        /\ StepOrder[r][1] = "which" => script = "part_000"}

\* C4: the steps run in the order of the sequence and fail fast: every
\* command but the last issued has succeeded; the log follows the order of
\* the sequence with no step twice; a command is issued only when all the
\* steps the script always runs before it, and inside the burning branch the
\* step just before it, are in the log; and once a command has failed the
\* process has ended, with no further command, write or chdir.
C4_InOrderFailFast ==
    /\ \A k \in DOMAIN issued : k < Len(issued) => issued[k].ok
    /\ \A k \in DOMAIN issued : k < Len(issued) => Rank(issued[k].cmd) < Rank(issued[k + 1].cmd)
    /\ \A k \in DOMAIN issued :
          /\ \A r \in MandatorySteps :
                r < Rank(issued[k].cmd) => \E j \in 1..(k - 1) : Rank(issued[j].cmd) = r
          /\ (Steps[k] \in BurningSteps /\ Steps[k] # <<"solana-keygen", "grind">>) =>
                (k > 1 /\ Rank(issued[k - 1].cmd) = Rank(issued[k].cmd) - 1)
    /\ (issued # <<>> /\ ~issued[Len(issued)].ok) => pc = "exited"
    /\ cwd # "." => \E k \in DOMAIN issued : Steps[k] = <<"ntt", "new">> /\ issued[k].ok
    /\ written # <<>> => \E k \in DOMAIN issued : Steps[k] = <<"write", "overrides.json">> /\ issued[k].ok

\* add-chain Solana failed: add-chain Base and push never ran.
C4_Witness ==
    /\ pc = "exited"
    /\ issued # <<>>
    /\ Steps[Len(issued)] = <<"ntt add-chain", "Solana">>
    /\ ~issued[Len(issued)].ok
    /\ \E k \in DOMAIN issued : Steps[k] = <<"spl-token", "authorize">>

\* ------------------------------------------------------------------- C5

\* The required flags (by index in FlagOrder) that do not occur.
AbsentFlags == {k \in 1..4 : Occurrences(FlagOrder[k]) = {}}

\* The required flags left without a usable value: absent, or with a last
\* occurrence followed by nothing or by an empty argument.
ValuelessFlags == {k \in 1..4 : LastValue(FlagOrder[k]) \in {undefined, ""}}

\* The parser stopped with exactly the missing-parameter error for flag k.
ReportsMissing(k) ==
    /\ StoppedInParse
    /\ pc = "exited" =>
          /\ stderr = <<MissingMessage(k)>>
          /\ exitCode = 1

\* C5 as stated: for every argument list made only of recognized value-flags
\* in which at least one required flag is missing, the parser reports exactly
\* one missing-parameter error, naming the first missing flag in the order
\* project-name, base-token, solana-token, solana-payer, dash-cased, and
\* ends with failure status without invoking any external command.
C5_MissingFlagReported ==
    (OnlyValueFlags /\ AbsentFlags # {}) => ReportsMissing(Smallest(AbsentFlags))

\* C5 amended: the same, for argument lists whose --mode values are all
\* burning or locking, and with "missing" read as "left without a non-empty
\* value" (flag absent, or its last occurrence followed by no token or by an
\* empty one).
C5_ValuelessFlagReported ==
    (OnlyValueFlags /\ (\A p \in FlagPositions : ~BadModeAt(p)) /\ ValuelessFlags # {}) =>
        ReportsMissing(Smallest(ValuelessFlags))

\* Two required flags absent, a valid --mode given, and the parser has stopped.
C5_Witness ==
    /\ OnlyValueFlags
    /\ \A p \in FlagPositions : ~BadModeAt(p)
    /\ Occurrences("--mode") # {}
    /\ AbsentFlags = {2, 4}
    /\ pc = "exited"
    /\ stderr = <<MissingMessage(2)>>

\* ------------------------------------------------------------------- C6

\* The scan reaches position p: no earlier flag position holds a help flag,
\* an unknown token or a --mode with a bad value.
ScanReaches(p) ==
    /\ p \in FlagPositions
    /\ \A q \in FlagPositions : q < p => (args[q] \in ValueFlags /\ ~BadModeAt(q))

\* The arguments fail validation because of a --mode value.
FailsOnMode == \E p \in FlagPositions : ScanReaches(p) /\ BadModeAt(p)

\* C6: a run whose arguments fail validation because of a --mode value other
\* than burning or locking, or because the payer path does not exist, ends
\* with failure status and that error's own message before any external
\* command, the prerequisite probes included, is issued.
C6_InvalidModeOrPayerStopsBeforeCommands ==
    /\ FailsOnMode =>
          /\ StoppedInParse
          /\ pc = "exited" => (exitCode = 1 /\ stderr = <<ModeError>>)
    /\ payerExists = "false" =>
          /\ StoppedInParse
          /\ pc = "exited"
          /\ exitCode = 1
          /\ stderr = <<PayerNotFound(LastValue("--solana-payer"))>>

\* A bad --mode value after the four required pairs: the run has ended.
C6_Witness ==
    /\ FailsOnMode
    /\ AbsentFlags = {}
    /\ pc = "exited"
    /\ Len(scanned) > 4

\* The payer file does not exist and the run has ended.
C6_WitnessPayer ==
    /\ payerExists = "false"
    /\ pc = "exited"

\* ------------------------------------------------------------------- C7

HelpAnywhere == \E k \in DOMAIN args : args[k] \in {"-h", "--help"}

\* The run printed the usage text and ended with failure status, no command issued.
UsageAndFailure ==
    /\ StoppedInParse
    /\ pc = "exited" => (exitCode = 1 /\ UsageText \in Lines(stdout))

\* C7 as stated: whenever -h or --help appears anywhere in the argument list,
\* the run prints the usage text and ends with failure status, whatever the
\* other arguments and wherever they stand, and no external command is issued.
C7_HelpAnywherePrintsUsage == HelpAnywhere => UsageAndFailure

\* -h or --help stands in flag position (it is not the value of the flag
\* before it) and no --mode before it has a bad value.
HelpInFlagPosition ==
    \E p \in FlagPositions :
        /\ args[p] \in {"-h", "--help"}
        /\ \A q \in FlagPositions : q < p => ~BadModeAt(q)

\* C7 amended: whenever -h or --help stands in flag position, with no --mode
\* of a bad value before it, the run prints the usage text and ends with
\* failure status, whatever the other arguments, and no external command is
\* issued.
C7_HelpInFlagPositionPrintsUsage == HelpInFlagPosition => UsageAndFailure

\* Help after other arguments and before more of them: the run has ended.
C7_Witness ==
    /\ HelpInFlagPosition
    /\ pc = "exited"
    /\ Len(scanned) > 1
    /\ args[scanned[Len(scanned)]] \in {"-h", "--help"}
    /\ scanned[Len(scanned)] < Len(args)

\* ------------------------------------------------------------------- C8

\* The naming pattern of the keypair file: starts with ntt and ends with
\* .json, letter case ignored.
IsNttJson(name) ==
    /\ Len(name) >= 3 + 5
    /\ SubSeq(Lowered(name), 1, 3) = <<"n", "t", "t">>
    /\ SubSeq(Lowered(name), Len(name) - 4, Len(name)) = <<".", "j", "s", "o", "n">>

KeypairFiles == {name \in dir : IsNttJson(name)}

\* The keypair locator has run (burning mode, after key generation).
Located == \E k \in DOMAIN issued : Steps[k] = <<"ls", "grep">>

\* The locator returned a file name: the caller went on with it.
ReturnedFile ==
    \/ pc = "token-authority"
    \/ \E k \in DOMAIN issued : Steps[k] = <<"ntt solana", "token-authority">>

LocateFailedWith(message) ==
    /\ pc = "exited"
    /\ exitCode = 0
    /\ stderr[Len(stderr)] = message
    /\ \A k \in DOMAIN issued :
          Steps[k] \notin {<<"ntt solana", "token-authority">>, <<"spl-token", "authorize">>}

\* C8: in burning mode, after key generation, the keypair locator returns a
\* file name only when exactly one directory entry matches the pattern
\* (starts with ntt, ends with .json, case ignored), and then that entry;
\* with no match it fails with the not-found message and with two or more
\* with the ambiguous message, and in both cases neither the token-authority
\* query nor spl-token authorize is executed.
C8_LocatorRequiresExactlyOneMatch ==
    Located =>
        /\ ReturnedFile => (Cardinality(KeypairFiles) = 1 /\ programKeypairFile \in KeypairFiles)
        /\ KeypairFiles = {} => LocateFailedWith(NoKeypairFile)
        /\ Cardinality(KeypairFiles) >= 2 => LocateFailedWith(MultipleKeypairFiles)

\* ------------------------------------------------------------------- C9

RemediationPrinted ==
    \E k \in DOMAIN stderr :
        /\ k + 4 <= Len(stderr)
        /\ stderr[k] = <<"Missing required tools. Please install:">>
        /\ stderr[k + 1] = <<"- Solana CLI tools (solana, spl-token)">>
        /\ stderr[k + 2][1] = "- Anchor (https://www.anchor-lang.com/docs/installation)"
        /\ stderr[k + 3][1] = "- Foundry (forge) (https://book.getfoundry.sh/getting-started/installation)"
        /\ stderr[k + 4][1] = "- NTT CLI (https://wormhole.com/docs/build/contract-integrations/native-token-transfers/deployment-process/install-cli)"

ProbeFailed == \E k \in DOMAIN issued : Probe(issued[k].cmd) /\ ~issued[k].ok

\* C9: if the presence probe of any one of solana, spl-token, anchor, forge,
\* ntt fails, the process prints the remediation message and ends with
\* failure status, and no deployment step (ntt new, chdir, ntt init, the
\* write of overrides.json, any later command) is performed in that run.
C9_MissingToolStopsBeforeDeployment ==
    ProbeFailed =>
        /\ pc = "exited"
        /\ exitCode = 1
        /\ RemediationPrinted
        /\ \A k \in DOMAIN issued : Probe(issued[k].cmd)
        /\ cwd = "."
        /\ written = <<>>

\* The probe of anchor failed after those of solana and spl-token passed.
C9_Witness ==
    /\ ProbeFailed
    /\ Len(issued) = 3
    /\ issued[3] = [cmd |-> <<"which", "anchor">>, ok |-> FALSE]
    /\ issued[1].ok /\ issued[2].ok

\* ------------------------------------------------------------------ C10

\* The indices of `scanned` at which `flag` was met.
MetAt(flag) == {j \in DOMAIN scanned : args[scanned[j]] = flag}

FieldOf(flag) == IF flag = "--mode" THEN "mode" ELSE FieldOfFlag[flag]

\* C10: in the scan, each value-flag takes exactly the one token after it as
\* its value, whatever the token (one that looks like a flag too), and the
\* scan resumes at the token after that; of several occurrences of a
\* value-flag the configuration holds the value of the last.  (A --mode
\* whose token is not a mode ends the run and stores nothing.)
C10_ValueFlagConsumesNextToken ==
    /\ scanned # <<>> => scanned[1] = 1
    /\ \A j \in DOMAIN scanned :
          j < Len(scanned) =>
              scanned[j + 1] = scanned[j] + (IF args[scanned[j]] \in ValueFlags THEN 2 ELSE 1)
    /\ (pc = "parseArgs" /\ scanned # <<>>) =>
          i = scanned[Len(scanned)] + 2
    /\ \A flag \in ValueFlags :
          /\ MetAt(flag) = {} => config[FieldOf(flag)] = undefined
          /\ MetAt(flag) # {} =>
                LET value == ArgAt(scanned[Largest(MetAt(flag))] + 1)
                IN  (flag = "--mode" => value \in Modes) => config[FieldOf(flag)] = value

\* A parse that succeeded although one value looked like a flag and one flag
\* came twice with different values.
C10_Witness ==
    /\ payerExists = "true"
    /\ \E j \in DOMAIN scanned :
          /\ args[scanned[j]] \in RequiredFlags
          /\ ArgAt(scanned[j] + 1) \in ValueFlags
          /\ Largest(MetAt(args[scanned[j]])) > j
          /\ config[FieldOf(args[scanned[j]])] # ArgAt(scanned[j] + 1)

=============================================================================
